---- MODULE Spec2Model ----
(***************************************************************************)
(* Hybrid retrieval engine of DeaprtmentRAG: rag/retriever.py (BM25 +      *)
(* semantic search fused by normalized scores) behind the request          *)
(* validation of service/schemas.py.                                       *)
(*                                                                         *)
(* Scores are fixed-point numbers in thousandths (Scale), texts are        *)
(* sequences of one-character strings.                                     *)
(***************************************************************************)
EXTENDS Integers, Sequences, FiniteSets, TLC

VARIABLES
    doc_texts,      \* Retriever.doc_texts: the snapshot, in file (insertion) order
    doc_urls,       \* Retriever.doc_urls: URL of position i of the BM25 corpus
    bm25,           \* Retriever.bm25: the tokenized corpus the index was built over
    pc,             \* position of the process / of the request being served
    request,        \* the raw HTTP request body, NoRequest for a direct call of search
    query,          \* search(query=...)
    top_k,          \* search(top_k=...)
    category,       \* search(category=...)
    alpha,          \* search(alpha=...)
    backend,        \* outcome of client.query_points for this search
    semantic_hits,  \* result of semantic_search
    bm25_hits,      \* result of bm25_search
    results,        \* the list search returns
    error,          \* the exception that left the handler, "" when none
    response,       \* the HTTP status the service answered the last request with
    t_call,         \* per thread: position and arguments of its call of search
    t_frame,        \* per frame: the locals of a call of search
    norm_in,        \* the dict of raw scores handed to sigmoid_norm
    norm_out,       \* the dict sigmoid_norm returned
    chunk_docs,     \* the cleaned documents handed to the chunking script
    all_chunks,     \* the chunk list the chunking script wrote
    lex_scores,     \* the array get_scores returned to the last call of bm25_search
    merge_in,       \* the chunk list handed to merge_short_chunks
    merge_out,      \* the chunk list merge_short_chunks returned
    llm_caller,     \* who consumes the LLM: LLM.ask, LLM.ask_stream, pipeline or route
    llm_pc,         \* position inside LLM.ask / LLM.ask_stream and their consumer
    attempt,        \* the loop variable of the retry loop
    requests,       \* number of calls of client.chat.completions.create so far
    slept,          \* the delays passed to time.sleep so far
    yielded,        \* the tokens LLM.ask_stream has yielded, each <<request, position>>
    emitted,        \* what the consumer of the pipeline or of the route has received
    llm_error,      \* the exception that left the LLM or the search, "" when none
    answer,         \* the request whose completion LLM.ask returned, 0 when none
    _pipeline,      \* routes._pipeline: 0 for None, else the number of the instance
    built,          \* number of RAGPipeline() constructions of the process
    started,        \* the startup hook has run and requests are served
    g_pc,           \* per caller: position inside get_pipeline
    g_seen,         \* per caller: what its test of _pipeline read
    g_got           \* per caller: the instances its calls returned

\* the state of the single-call process, of the concurrent calls, of the
\* normalizer and of the offline chunking
callVars == <<pc, request, query, top_k, category, alpha, backend, semantic_hits,
              bm25_hits, results, error, response>>
indexVars == <<doc_texts, doc_urls, bm25>>
threadVars == <<t_call, t_frame>>
normVars == <<norm_in, norm_out>>
chunkVars == <<chunk_docs, all_chunks>>

lexVars == <<lex_scores>>
mergeVars == <<merge_in, merge_out>>
llmVars == <<llm_caller, llm_pc, attempt, requests, slept, yielded, emitted, llm_error, answer>>
pipeVars == <<_pipeline, built, started, g_pc, g_seen, g_got>>
otherVars == <<lexVars, mergeVars, llmVars, pipeVars>>
vars == <<indexVars, callVars, threadVars, normVars, chunkVars, otherVars>>

\* what the actions of the single-call process leave alone
besideCalls == <<threadVars, normVars, chunkVars, otherVars>>

-----------------------------------------------------------------------------
(* Values *)

NoneV == "None"

Scale == 1000

\* rag/config.py
SEMANTIC_TOP_K == 15
TOP_K == 5

\* service/schemas.py
VALID_CATEGORIES == {"main", "news", "people"}
TopKMin == 1
TopKMax == 20
QuestionMinLen == 1

\* the default of search(alpha=0.5) and the constants of sigmoid_norm(k=1.0, x0=3.0)
DefaultAlpha == 500
SigmoidK == 1
SigmoidX0 == 3000

SENTINEL == <<"(", "n", "/", "a", ")">>

\* The bound of the model: the vector backend answers with at most this many points.
MaxSemHits == 2

-----------------------------------------------------------------------------
(* Sequence helpers *)

Range(s) == {s[i] : i \in 1..Len(s)}

Min2(a, b) == IF a <= b THEN a ELSE b
Max2(a, b) == IF a >= b THEN a ELSE b

Reverse(s) == [i \in 1..Len(s) |-> s[Len(s) + 1 - i]]

\* all enumerations of a finite set, one per iteration order
Perms(S) == {p \in [1..Cardinality(S) -> S] : \A i, j \in 1..Cardinality(S) : p[i] = p[j] => i = j}

\* a cut one element too long
PySlicePrefixOffByOne(s, n) == SubSeq(s, 1, Min2(n + 1, Len(s)))

\* Python's seq[:n]
PySlicePrefix(s, n) ==
    IF n >= 0 THEN SubSeq(s, 1, Min2(n, Len(s)))
    ELSE SubSeq(s, 1, Max2(Len(s) + n, 0))

-----------------------------------------------------------------------------
(* Retriever._tokenize *)

LowerChars == {"a", "b", "c", "d", "7"}
UpperChars == {"A", "B"}

PyLower(ch) == IF ch = "A" THEN "a" ELSE IF ch = "B" THEN "b" ELSE ch

IsWordChar(ch) == ch \in LowerChars

RECURSIVE FindAll(_, _, _)
\* re.findall(r"[a-z0-9]+", text): the maximal runs of word characters, left to right
FindAll(text, i, cur) ==
    IF i > Len(text) THEN (IF cur = <<>> THEN <<>> ELSE <<cur>>)
    ELSE IF IsWordChar(text[i]) THEN FindAll(text, i + 1, Append(cur, text[i]))
    ELSE (IF cur = <<>> THEN <<>> ELSE <<cur>>) \o FindAll(text, i + 1, <<>>)

\* the tokenizer without the minimum token length
TokenizeAnyLength(text) ==
    FindAll([i \in 1..Len(text) |-> PyLower(text[i])], 1, <<>>)

_tokenize(text) ==
    LET lowered == [i \in 1..Len(text) |-> PyLower(text[i])]
        tokens == FindAll(lowered, 1, <<>>)
    IN SelectSeq(tokens, LAMBDA t : Len(t) >= 2)

-----------------------------------------------------------------------------
(* The worlds the engine is started in *)

Doc(u, ti, tx, c) == [url |-> u, title |-> ti, text |-> tx, category |-> c]

\* doc_texts.json as written by build_doc_texts: url -> {title, text, category},
\* the category one of main/news/people, the url never empty
Snapshots ==
    { <<>>,
      << Doc("u1", <<>>, <<"a">>, "main") >>,
      << Doc("u1", <<"A", "b">>, <<"a", "b", " ", "c", "d">>, "people"),
         Doc("u2", <<"c", "d">>, <<"a", "b">>, "news"),
         Doc("u3", <<"7", "7">>, <<"a", "b", " ", "c", "d">>, "people") >>,
      << Doc("u1", <<"A", "b">>, <<"c", "d", "!">>, "main"),
         Doc("u2", <<"c", "d">>, <<"a", "b">>, "people") >> }

Payload(u, ti, c, n) == [source_url |-> u, title |-> ti, category |-> c, chunks |-> n]

\* The points of the Qdrant collection as uploaded by upload_points: one point per
\* chunk, the payload copied from the chunk's metadata.  chunk_document keeps a
\* document without url (source_url ""), build_doc_texts drops it.
QdrantPayloads ==
    { Payload("u1", <<"A", "b">>, "people", 2),
      Payload("u2", <<"c", "d">>, "news", 1),
      Payload("u3", <<"7", "7">>, "people", 1),
      Payload("", <<"a", "b">>, "main", 1) }

\* cosine similarities the backend reports, raw BM25 scores get_scores reports
SimScores == {900, 950}
RawScores == {0, 2600, 19300}

Queries ==
    { <<"a", "b">>,
      <<"A", "b", " ", "c", "d">>,
      <<"a", " ", "!">> }

Alphas == {0, 500, 1000}

\* what the callers pass: the scripts call search directly, the service passes
\* the validated request
DirectTopKs == {1, 2}
DirectCategories == {NoneV, "people", "news"}
RequestTopKs == {0, 1, 2, 21}
RequestCategories == {NoneV, "people", "string"}

\* Python truthiness of an optional string
Truthy(v) == v # NoneV /\ v # ""

-----------------------------------------------------------------------------
(* dict access on the snapshot *)

HasDoc(texts, url) == \E i \in 1..Len(texts) : texts[i].url = url

\* Retriever._get_full_doc: self.doc_texts.get(source_url)
_get_full_doc(texts, url) ==
    IF HasDoc(texts, url)
    THEN texts[CHOOSE i \in 1..Len(texts) : texts[i].url = url]
    ELSE NoneV

-----------------------------------------------------------------------------
(* Retriever.__init__ *)

\* corpus_tokens: title + " " + text of every document, tokenized
CorpusTokens(texts) ==
    [i \in 1..Len(texts) |-> _tokenize(texts[i].title \o <<" ">> \o texts[i].text)]

\* the urls in the opposite order of the corpus
DocUrlsReversed(texts) == [i \in 1..Len(texts) |-> texts[Len(texts) + 1 - i].url]

\* self.doc_urls.append(url), in the order of corpus_tokens
DocUrls(texts) == [i \in 1..Len(texts) |-> texts[i].url]

\* BM25Okapi(corpus_tokens) divides by the corpus size (avgdl) and by the size of
\* the vocabulary (average idf): ZeroDivisionError when either is zero
BM25OkapiRaises(corpus) ==
    \/ Len(corpus) = 0
    \/ \A i \in 1..Len(corpus) : corpus[i] = <<>>

-----------------------------------------------------------------------------
(* Retriever.bm25_search *)

\* BM25Okapi.get_scores(tokens): one score per document of the corpus; a document
\* that holds none of the query tokens scores 0
GetScores(corpus, tokens) ==
    { sc \in [1..Len(corpus) -> RawScores] :
        \A i \in 1..Len(corpus) :
            (Range(corpus[i]) \cap Range(tokens) = {}) => sc[i] = 0 }

\* the indices by ascending score
ArgSortAsc(scores) ==
    { p \in Perms(DOMAIN scores) :
        \A i \in 1..(Len(p) - 1) : scores[p[i]] <= scores[p[i + 1]] }

\* np.argsort(scores)[::-1]: the indices by descending score
ArgSortDesc(scores) ==
    { Reverse(p) : p \in { q \in Perms(DOMAIN scores) :
                             \A i \in 1..(Len(q) - 1) : scores[q[i]] <= scores[q[i + 1]] } }

LexicalHit(texts, urls, scores, idx) ==
    LET doc == _get_full_doc(texts, urls[idx])
    IN [source_url |-> urls[idx], title |-> doc.title,
        category |-> doc.category, score |-> scores[idx]]

\* a scan that never skips a document
CategoryMismatchIgnored(cat, doc_cat) == FALSE

\* if category and cat != category: continue
CategoryMismatch(cat, doc_cat) == Truthy(cat) /\ doc_cat # cat

\* a scan in which every document looked at, skipped or kept, uses up the limit
Bm25ScanSkipsCount(texts, urls, scores, top_indices, i, hits, limit, cat) ==
    LET n == CHOOSE k \in 0..Len(top_indices) :
                /\ \A j \in 1..k : scores[top_indices[j]] > 0
                /\ (k < Len(top_indices) => scores[top_indices[k + 1]] <= 0)
        seen == 1..(IF n <= limit THEN n ELSE limit)
        kept == { j \in seen :
                    ~CategoryMismatch(cat, _get_full_doc(texts, urls[top_indices[j]]).category) }
        pos == [j \in 1..Cardinality(kept) |->
                  CHOOSE m \in kept : Cardinality({x \in kept : x < m}) = j - 1]
    IN [j \in 1..Cardinality(kept) |-> LexicalHit(texts, urls, scores, top_indices[pos[j]])]

RECURSIVE Bm25Scan(_, _, _, _, _, _, _, _)
\* the loop over top_indices, from position i on with the hits collected so far
Bm25Scan(texts, urls, scores, top_indices, i, hits, limit, cat) ==
    IF i > Len(top_indices) THEN hits
    ELSE LET idx == top_indices[i] IN
         IF scores[idx] <= 0 THEN hits
         ELSE IF Len(hits) >= limit THEN hits
         ELSE IF CategoryMismatch(cat, _get_full_doc(texts, urls[idx]).category)
              THEN Bm25Scan(texts, urls, scores, top_indices, i + 1, hits, limit, cat)
         ELSE Bm25Scan(texts, urls, scores, top_indices, i + 1,
                       Append(hits, LexicalHit(texts, urls, scores, idx)), limit, cat)

\* the lists bm25_search can return
bm25_search(texts, urls, corpus, q, limit, cat) ==
    LET tokens == _tokenize(q) IN
    IF tokens = <<>> THEN { <<>> }
    ELSE UNION { { Bm25Scan(texts, urls, sc, ti, 1, <<>>, limit, cat) :
                     ti \in ArgSortDesc(sc) } : sc \in GetScores(corpus, tokens) }

-----------------------------------------------------------------------------
(* Retriever.semantic_search *)

SemanticHit(p, sim) ==
    [source_url |-> p.source_url, title |-> p.title, category |-> p.category, score |-> sim]

\* the payloads query_points may return under query_filter
Filtered(cat) ==
    IF Truthy(cat) THEN {p \in QdrantPayloads : p.category = cat} ELSE QdrantPayloads

\* client.query_points(query, query_filter, limit): at most limit points that pass
\* the filter, by descending similarity, no point twice
query_points(cat, limit) ==
    UNION { { h \in [1..n -> {SemanticHit(p, sim) : p \in Filtered(cat), sim \in SimScores}] :
                /\ \A i \in 1..(n - 1) : h[i].score >= h[i + 1].score
                /\ \A p \in Filtered(cat) :
                     Cardinality({i \in 1..n : h[i].source_url = p.source_url}) <= p.chunks }
            : n \in 0..Min2(limit, MaxSemHits) }

\* the outcomes of the call of the vector backend
BackendOutcomes == {"ok", "unreachable", "error", "timeout"}

\* a handler that catches the refused connection only
CaughtConnectionOnly(outcome) == outcome = "unreachable"

\* except Exception: every failure of the call is caught
Caught(outcome) == outcome \in {"unreachable", "error", "timeout"}

-----------------------------------------------------------------------------
(* Retriever.search, steps 2-7 *)

\* d[url] = hit["score"]: the score of the last hit of each url
CollectLastSeen(hits, i, d) ==
    LET urls == { hits[j].source_url : j \in 1..Len(hits) } \ {""}
    IN [u \in urls |->
          hits[CHOOSE j \in 1..Len(hits) :
                  /\ hits[j].source_url = u
                  /\ \A k \in (j + 1)..Len(hits) : hits[k].source_url # u].score]

RECURSIVE CollectScores(_, _, _)
\* for hit in hits: if url: d[url] = max(d.get(url, 0), hit["score"]);
\* the dict as a function on its keys
CollectScores(hits, i, d) ==
    IF i > Len(hits) THEN d
    ELSE LET url == hits[i].source_url
             old == IF url \in DOMAIN d THEN d[url] ELSE 0
         IN IF url # ""
            THEN CollectScores(hits, i + 1,
                     [u \in (DOMAIN d) \cup {url} |->
                         IF u = url THEN Max2(old, hits[i].score) ELSE d[u]])
            ELSE CollectScores(hits, i + 1, d)

EmptyDict == [u \in {} |-> 0]

\* math.exp on the grid of tenths between -8 and 8, argument and value in
\* thousandths: ExpTable[i] = exp(-8 + (i - 1) / 10)
ExpTable ==
    << 0, 0, 0, 0, 1, 1, 1, 1, 1, 1,
       1, 1, 1, 1, 1, 2, 2, 2, 2, 2,
       2, 3, 3, 3, 4, 4, 5, 5, 6, 6,
       7, 7, 8, 9, 10, 11, 12, 14, 15, 17,
       18, 20, 22, 25, 27, 30, 33, 37, 41, 45,
       50, 55, 61, 67, 74, 82, 91, 100, 111, 122,
       135, 150, 165, 183, 202, 223, 247, 273, 301, 333,
       368, 407, 449, 497, 549, 607, 670, 741, 819, 905,
       1000, 1105, 1221, 1350, 1492, 1649, 1822, 2014, 2226, 2460,
       2718, 3004, 3320, 3669, 4055, 4482, 4953, 5474, 6050, 6686,
       7389, 8166, 9025, 9974, 11023, 12182, 13464, 14880, 16445, 18174,
       20086, 22198, 24533, 27113, 29964, 33115, 36598, 40447, 44701, 49402,
       54598, 60340, 66686, 73700, 81451, 90017, 99484, 109947, 121510, 134290,
       148413, 164022, 181272, 200337, 221406, 244692, 270426, 298867, 330300, 365037,
       403429, 445858, 492749, 544572, 601845, 665142, 735095, 812406, 897847, 992275,
       1096633, 1211967, 1339431, 1480300, 1635984, 1808042, 1998196, 2208348, 2440602, 2697282,
       2980958 >>

ExpArgMin == -8000
ExpArgMax == 8000
ExpStep == 100

MathExp(x) ==
    LET c == Max2(ExpArgMin, Min2(ExpArgMax, x))
    IN ExpTable[((c - ExpArgMin) \div ExpStep) + 1]

\* the sigmoid centred at 0 instead of x0
SigmoidMidpointZero(v) == (Scale * Scale) \div (Scale + MathExp((0 - SigmoidK) * v))

\* 1.0 / (1.0 + math.exp(-k * (v - x0)))
Sigmoid(v) == (Scale * Scale) \div (Scale + MathExp((0 - SigmoidK) * (v - SigmoidX0)))

\* min-max over the scores of the result set
MinMaxNorm(scores) ==
    LET vals == { scores[u] : u \in DOMAIN scores }
        lo == CHOOSE x \in vals : \A y \in vals : x <= y
        hi == CHOOSE x \in vals : \A y \in vals : x >= y
    IN [u \in DOMAIN scores |->
          IF hi = lo THEN Scale ELSE (Scale * (scores[u] - lo)) \div (hi - lo)]

\* {url: 1 / (1 + exp(-k * (v - x0))) for url, v in scores.items()}
sigmoid_norm(scores) == [u \in DOMAIN scores |-> Sigmoid(scores[u])]

\* url_meta: title and category of the first hit of semantic_hits + bm25_hits
UrlMeta(sem, lex, url) ==
    LET all == sem \o lex
        i == CHOOSE j \in 1..Len(all) :
                /\ all[j].source_url = url
                /\ \A k \in 1..(j - 1) : all[k].source_url # url
    IN [title |-> all[i].title, category |-> all[i].category]

\* hybrid as soon as one path has the url
MatchTypeEither(has_bm25, has_sem) ==
    IF has_bm25 \/ has_sem THEN "hybrid" ELSE "semantic"

MatchType(has_bm25, has_sem) ==
    IF has_bm25 /\ has_sem THEN "hybrid"
    ELSE IF has_bm25 THEN "bm25"
    ELSE "semantic"

\* the weighted average alpha * bm25 + (1 - alpha) * sem
HybridScoreWeighted(s_bm25, s_sem, a) ==
    (a * s_bm25 + (Scale - a) * s_sem) \div Scale

\* hybrid = max(s_bm25, s_sem) + alpha * min(s_bm25, s_sem)
HybridScore(s_bm25, s_sem, a) ==
    Max2(s_bm25, s_sem) + (a * Min2(s_bm25, s_sem)) \div Scale

\* the entry of hybrid_results for one url
Candidate(sem, lex, a, url) ==
    LET semantic_scores == CollectScores(sem, 1, EmptyDict)
        bm25_scores == CollectScores(lex, 1, EmptyDict)
        norm_sem == semantic_scores
        norm_bm25 == sigmoid_norm(bm25_scores)
        s_bm25 == IF url \in DOMAIN norm_bm25 THEN norm_bm25[url] ELSE 0
        s_sem == IF url \in DOMAIN norm_sem THEN norm_sem[url] ELSE 0
        meta == UrlMeta(sem, lex, url)
    IN [url |-> url,
        hybrid_score |-> HybridScore(s_bm25, s_sem, a),
        bm25_norm |-> s_bm25,
        sem_norm |-> s_sem,
        match_type |-> MatchType(url \in DOMAIN bm25_scores, url \in DOMAIN semantic_scores),
        title |-> meta.title,
        category |-> meta.category]

\* the keys of the semantic path alone
AllUrlsSemanticOnly(sem, lex) == DOMAIN CollectScores(sem, 1, EmptyDict)

\* all_urls = set(norm_sem.keys()) | set(norm_bm25.keys())
AllUrls(sem, lex) ==
    (DOMAIN CollectScores(sem, 1, EmptyDict)) \cup (DOMAIN CollectScores(lex, 1, EmptyDict))

\* x appended: the list left in the order of the loop
InsertUnordered(sorted, x) == sorted \o <<x>>

RECURSIVE InsertDesc(_, _)
\* x placed behind every element whose hybrid_score is not smaller
InsertDesc(sorted, x) ==
    IF sorted = <<>> THEN <<x>>
    ELSE IF Head(sorted).hybrid_score >= x.hybrid_score
         THEN <<Head(sorted)>> \o InsertDesc(Tail(sorted), x)
         ELSE <<x>> \o sorted

RECURSIVE SortByScore(_, _, _)
\* hybrid_results.sort(key=hybrid_score, reverse=True): stable, so equal scores keep
\* the order in which the loop over all_urls appended them
SortByScore(items, i, acc) ==
    IF i > Len(items) THEN acc
    ELSE SortByScore(items, i + 1, InsertDesc(acc, items[i]))

\* the title handed out in place of the text
FullTextFromTitle(texts, url) ==
    IF HasDoc(texts, url) THEN _get_full_doc(texts, url).title ELSE SENTINEL

\* full_text = doc["text"] if doc else the sentinel
FullText(texts, url) ==
    IF HasDoc(texts, url) THEN _get_full_doc(texts, url).text ELSE SENTINEL

RetrievedDocument(texts, item) ==
    [source_url |-> item.url,
     title |-> item.title,
     category |-> item.category,
     full_text |-> FullText(texts, item.url),
     score |-> item.hybrid_score,
     bm25_norm |-> item.bm25_norm,
     sem_norm |-> item.sem_norm,
     match_type |-> item.match_type]

\* the list search returns when the set all_urls is iterated in the order `order`
Fuse(texts, sem, lex, k, a, order) ==
    LET hybrid_results == [i \in 1..Len(order) |-> Candidate(sem, lex, a, order[i])]
        sorted == SortByScore(hybrid_results, 1, <<>>)
        top == PySlicePrefix(sorted, k)
    IN [i \in 1..Len(top) |-> RetrievedDocument(texts, top[i])]

-----------------------------------------------------------------------------
(* service/schemas.py: AskRequest *)

Request(q, k, c) == [present |-> TRUE, question |-> q, top_k |-> k, category |-> c]

\* no HTTP request is being served
NoRequest == [present |-> FALSE, question |-> <<>>, top_k |-> 0, category |-> NoneV]

\* top_k without its upper limit
FieldsValidNoUpperLimit(req) ==
    /\ Len(req.question) >= QuestionMinLen
    /\ req.top_k >= TopKMin

\* Field(min_length=1, max_length=1000) and Field(ge=1, le=20)
FieldsValid(req) ==
    /\ Len(req.question) >= QuestionMinLen
    /\ req.top_k >= TopKMin
    /\ req.top_k <= TopKMax

\* the field validator of category (mode="before")
clean_category(v) ==
    IF v = NoneV THEN NoneV
    ELSE IF v = "" \/ v \notin VALID_CATEGORIES THEN NoneV
    ELSE v

RequestQuestions == Queries \cup { <<>> }

-----------------------------------------------------------------------------
(* The process *)

\* no call of search is in progress: its arguments and locals do not exist
NoCall ==
    /\ request = NoRequest
    /\ query = <<>>
    /\ top_k = 0
    /\ category = NoneV
    /\ alpha = 0
    /\ backend = "none"
    /\ semantic_hits = <<>>
    /\ bm25_hits = <<>>
    /\ results = <<>>

ResetCall ==
    /\ request' = NoRequest
    /\ query' = <<>>
    /\ top_k' = 0
    /\ category' = NoneV
    /\ alpha' = 0
    /\ backend' = "none"
    /\ semantic_hits' = <<>>
    /\ bm25_hits' = <<>>
    /\ results' = <<>>

\* HTTP statuses; NoStatus while no response has been sent
NoStatus == 0
StatusOk == 200
StatusInvalid == 422
StatusError == 500

\* a handler that answers 200 whatever happened
AskStatusSwallowed(exc) == StatusOk

\* the /ask handler: try: ... return AskResponse(...) except Exception: raise
\* HTTPException(status_code=500)
AskStatus(exc) == IF exc # "" THEN StatusError ELSE StatusOk

\* what pipeline.ask does after search: format_context and llm.ask, which may raise
LLMOutcomes == {"", "LLMError"}

\* the other processes of the model, at rest
\* nothing but the Retriever is in use
LLMIdle ==
    /\ llm_caller = "none"
    /\ llm_pc = "idle"
    /\ attempt = 0
    /\ requests = 0
    /\ slept = <<>>
    /\ yielded = <<>>
    /\ emitted = <<>>
    /\ llm_error = ""
    /\ answer = 0

PipelineIdle ==
    /\ _pipeline = 0
    /\ built = 0
    /\ started = FALSE
    /\ g_pc = <<>>
    /\ g_seen = <<>>
    /\ g_got = <<>>

OthersIdle ==
    /\ lex_scores = <<>>
    /\ merge_in = <<>>
    /\ merge_out = <<>>
    /\ LLMIdle
    /\ PipelineIdle

BesideCallsIdle ==
    /\ t_call = <<>>
    /\ t_frame = <<>>
    /\ norm_in = <<>>
    /\ norm_out = <<>>
    /\ chunk_docs = <<>>
    /\ all_chunks = <<>>
    /\ OthersIdle

Init ==
    /\ doc_texts \in Snapshots
    /\ doc_urls = <<>>
    /\ bm25 = NoneV
    /\ pc = "new"
    /\ error = ""
    /\ response = NoStatus
    /\ NoCall
    /\ BesideCallsIdle

\* Retriever.__init__: the snapshot is loaded, doc_urls and the BM25 index are built
Construct ==
    /\ pc = "new"
    /\ doc_urls' = DocUrls(doc_texts)
    /\ IF BM25OkapiRaises(CorpusTokens(doc_texts))
       THEN /\ bm25' = NoneV
            /\ error' = "ZeroDivisionError"
            /\ pc' = "crashed"
       ELSE /\ bm25' = CorpusTokens(doc_texts)
            /\ error' = ""
            /\ pc' = "idle"
    /\ UNCHANGED <<doc_texts, request, query, top_k, category, alpha, backend,
                   semantic_hits, bm25_hits, results>>
    /\ UNCHANGED besideCalls
    /\ UNCHANGED response

\* POST /ask: the body is validated as an AskRequest, then pipeline.ask calls
\* retriever.search(query=question, top_k=top_k, category=category)
AskEndpoint ==
    /\ pc = "idle"
    /\ \E q \in RequestQuestions, k \in RequestTopKs, c \in RequestCategories :
         LET req == Request(q, k, c) IN
         /\ request' = req
         /\ IF FieldsValid(req)
            THEN /\ query' = req.question
                 /\ top_k' = req.top_k
                 /\ category' = clean_category(req.category)
                 /\ alpha' = DefaultAlpha
                 /\ pc' = "semantic"
            ELSE /\ UNCHANGED <<query, top_k, category, alpha>>
                 /\ pc' = "rejected"
    /\ error' = ""
    /\ response' = NoStatus
    /\ UNCHANGED <<doc_texts, doc_urls, bm25, backend, semantic_hits, bm25_hits, results>>
    /\ UNCHANGED besideCalls

\* the validation failure is answered (HTTP 422), no handler has run
RespondRejected ==
    /\ pc = "rejected"
    /\ pc' = "idle"
    /\ request' = NoRequest
    /\ response' = StatusInvalid
    /\ UNCHANGED <<doc_texts, doc_urls, bm25, query, top_k, category, alpha, backend,
                   semantic_hits, bm25_hits, results, error>>
    /\ UNCHANGED besideCalls

\* a direct call retriever.search(query, top_k, category, alpha), as the scripts make
CallSearch ==
    /\ pc = "idle"
    /\ \E q \in Queries, k \in DirectTopKs, c \in DirectCategories, a \in Alphas :
         /\ query' = q
         /\ top_k' = k
         /\ category' = c
         /\ alpha' = a
    /\ request' = NoRequest
    /\ error' = ""
    /\ response' = NoStatus
    /\ pc' = "semantic"
    /\ UNCHANGED <<doc_texts, doc_urls, bm25, backend, semantic_hits, bm25_hits, results>>
    /\ UNCHANGED besideCalls

\* search step 1a: semantic_search(query, category=category)
SemanticSearch ==
    /\ pc = "semantic"
    /\ \E embedded \in BOOLEAN, outcome \in BackendOutcomes :
         IF ~embedded
         THEN \* self.embedder.embed raises outside the try
              /\ error' = "EmbedderError"
              /\ pc' = "raised"
              /\ UNCHANGED <<backend, semantic_hits>>
         ELSE IF outcome = "ok"
         THEN /\ \E hits \in query_points(category, SEMANTIC_TOP_K) : semantic_hits' = hits
              /\ backend' = outcome
              /\ pc' = "bm25"
              /\ UNCHANGED error
         ELSE IF Caught(outcome)
         THEN /\ semantic_hits' = <<>>
              /\ backend' = outcome
              /\ pc' = "bm25"
              /\ UNCHANGED error
         ELSE /\ error' = outcome
              /\ backend' = outcome
              /\ pc' = "raised"
              /\ UNCHANGED semantic_hits
    /\ UNCHANGED <<doc_texts, doc_urls, bm25, request, query, top_k, category, alpha,
                   bm25_hits, results>>
    /\ UNCHANGED besideCalls
    /\ UNCHANGED response

\* search step 1b: bm25_search(query, category=category)
Bm25Search ==
    /\ pc = "bm25"
    /\ \E hits \in bm25_search(doc_texts, doc_urls, bm25, query, SEMANTIC_TOP_K, category) :
         bm25_hits' = hits
    /\ pc' = "fuse"
    /\ UNCHANGED <<doc_texts, doc_urls, bm25, request, query, top_k, category, alpha,
                   backend, semantic_hits, results, error>>
    /\ UNCHANGED besideCalls
    /\ UNCHANGED response

\* search steps 2-7: the loop over the set all_urls runs in the order the hashes
\* of this process give, any enumeration of the set
FuseAndRank ==
    /\ pc = "fuse"
    /\ \E order \in Perms(AllUrls(semantic_hits, bm25_hits)) :
         results' = Fuse(doc_texts, semantic_hits, bm25_hits, top_k, alpha, order)
    /\ pc' = "done"
    /\ UNCHANGED <<doc_texts, doc_urls, bm25, request, query, top_k, category, alpha,
                   backend, semantic_hits, bm25_hits, error>>
    /\ UNCHANGED besideCalls
    /\ UNCHANGED response

\* search has returned to a script; the caller takes the list and the call's
\* locals are gone
Return ==
    /\ pc = "done"
    /\ ~request.present
    /\ pc' = "idle"
    /\ ResetCall
    /\ response' = NoStatus
    /\ UNCHANGED <<doc_texts, doc_urls, bm25, error>>
    /\ UNCHANGED besideCalls

\* search has returned to pipeline.ask: the context is formatted, the LLM is
\* asked, and the handler answers with the AskResponse or, if that raised, with 500
AskRespond ==
    /\ pc = "done"
    /\ request.present
    /\ \E exc \in LLMOutcomes :
         /\ error' = exc
         /\ response' = AskStatus(exc)
    /\ pc' = "idle"
    /\ ResetCall
    /\ UNCHANGED <<doc_texts, doc_urls, bm25>>
    /\ UNCHANGED besideCalls

\* the exception leaves search: the /ask handler turns it into its error
\* response, a script sees the exception itself
Propagate ==
    /\ pc = "raised"
    /\ pc' = "idle"
    /\ response' = IF request.present THEN AskStatus(error) ELSE NoStatus
    /\ ResetCall
    /\ UNCHANGED <<doc_texts, doc_urls, bm25, error>>
    /\ UNCHANGED besideCalls

Next ==
    \/ Construct
    \/ AskEndpoint
    \/ RespondRejected
    \/ CallSearch
    \/ SemanticSearch
    \/ Bm25Search
    \/ FuseAndRank
    \/ Return
    \/ AskRespond
    \/ Propagate

Spec == Init /\ [][Next]_vars

-----------------------------------------------------------------------------
(* Concurrent calls of search on one Retriever: the generators of /ask/stream  *)
(* run in the threads of the server's pool                                     *)

Threads == {1, 2}

\* what the concurrent callers pass (top_k and category of the request, the
\* default alpha) and what the backend answers them
ThreadQueries == { <<"7", "7">>, <<"a", " ", "!">> }
ThreadTopKs == {1, 2}
ThreadCategories == {NoneV, "people"}
ThreadResponses(cat) == {h \in query_points(cat, SEMANTIC_TOP_K) : Len(h) <= 1}

IdleCall ==
    [pc |-> "idle", query |-> <<>>, top_k |-> 0, category |-> NoneV, alpha |-> 0,
     sem_answer |-> <<>>, lex_answer |-> <<>>]

EmptyFrame == [semantic_hits |-> <<>>, bm25_hits |-> <<>>, results |-> <<>>]

\* one frame of locals for all calls, as attributes of the instance would be
FrameOnInstance(t) == 1

\* semantic_hits, bm25_hits and everything derived from them are locals of the
\* call: every invocation has its own frame
Frame(t) == t

InitConcurrent ==
    /\ doc_texts \in Snapshots
    /\ doc_urls = <<>>
    /\ bm25 = NoneV
    /\ pc = "new"
    /\ error = ""
    /\ response = NoStatus
    /\ NoCall
    /\ t_call = [t \in Threads |-> IdleCall]
    /\ t_frame = [t \in Threads |-> EmptyFrame]
    /\ norm_in = <<>>
    /\ norm_out = <<>>
    /\ chunk_docs = <<>>
    /\ all_chunks = <<>>
    /\ OthersIdle

\* the startup hook builds the one Retriever before any request is served
ConstructShared ==
    /\ pc = "new"
    /\ doc_urls' = DocUrls(doc_texts)
    /\ IF BM25OkapiRaises(CorpusTokens(doc_texts))
       THEN /\ bm25' = NoneV
            /\ error' = "ZeroDivisionError"
            /\ pc' = "crashed"
       ELSE /\ bm25' = CorpusTokens(doc_texts)
            /\ error' = ""
            /\ pc' = "idle"
    /\ UNCHANGED <<doc_texts, request, query, top_k, category, alpha, backend,
                   semantic_hits, bm25_hits, results, response>>
    /\ UNCHANGED <<threadVars, normVars, chunkVars, otherVars>>

\* thread t enters search
ThreadCall(t) ==
    /\ pc = "idle"
    /\ t_call[t].pc = "idle"
    /\ \E q \in ThreadQueries, k \in ThreadTopKs, c \in ThreadCategories :
         t_call' = [t_call EXCEPT ![t] =
                      [pc |-> "semantic", query |-> q, top_k |-> k, category |-> c,
                       alpha |-> DefaultAlpha, sem_answer |-> <<>>, lex_answer |-> <<>>]]
    /\ t_frame' = [t_frame EXCEPT ![Frame(t)] = EmptyFrame]
    /\ UNCHANGED <<indexVars, callVars, normVars, chunkVars, otherVars>>

\* thread t runs semantic_search; sem_answer records what the backend gave it
ThreadSemantic(t) ==
    /\ t_call[t].pc = "semantic"
    /\ \E outcome \in BackendOutcomes :
         \E hits \in (IF outcome = "ok" THEN ThreadResponses(t_call[t].category)
                      ELSE { <<>> }) :
            /\ t_frame' = [t_frame EXCEPT ![Frame(t)].semantic_hits = hits]
            /\ t_call' = [t_call EXCEPT ![t].pc = "bm25", ![t].sem_answer = hits]
    /\ UNCHANGED <<indexVars, callVars, normVars, chunkVars, otherVars>>

\* thread t runs bm25_search; lex_answer records what the index gave it
ThreadBm25(t) ==
    /\ t_call[t].pc = "bm25"
    /\ \E hits \in bm25_search(doc_texts, doc_urls, bm25, t_call[t].query,
                              SEMANTIC_TOP_K, t_call[t].category) :
         /\ t_frame' = [t_frame EXCEPT ![Frame(t)].bm25_hits = hits]
         /\ t_call' = [t_call EXCEPT ![t].pc = "fuse", ![t].lex_answer = hits]
    /\ UNCHANGED <<indexVars, callVars, normVars, chunkVars, otherVars>>

\* thread t fuses the hits of its frame
ThreadFuse(t) ==
    /\ t_call[t].pc = "fuse"
    /\ LET f == t_frame[Frame(t)] IN
       \E order \in Perms(AllUrls(f.semantic_hits, f.bm25_hits)) :
         t_frame' = [t_frame EXCEPT ![Frame(t)].results =
                       Fuse(doc_texts, f.semantic_hits, f.bm25_hits,
                            t_call[t].top_k, t_call[t].alpha, order)]
    /\ t_call' = [t_call EXCEPT ![t].pc = "done"]
    /\ UNCHANGED <<indexVars, callVars, normVars, chunkVars, otherVars>>

\* thread t returns its list
ThreadReturn(t) ==
    /\ t_call[t].pc = "done"
    /\ t_call' = [t_call EXCEPT ![t] = IdleCall]
    /\ t_frame' = [t_frame EXCEPT ![Frame(t)] = EmptyFrame]
    /\ UNCHANGED <<indexVars, callVars, normVars, chunkVars, otherVars>>

NextConcurrent ==
    \/ ConstructShared
    \/ \E t \in Threads : ThreadCall(t)
    \/ \E t \in Threads : ThreadSemantic(t)
    \/ \E t \in Threads : ThreadBm25(t)
    \/ \E t \in Threads : ThreadFuse(t)
    \/ \E t \in Threads : ThreadReturn(t)

SpecConcurrent == InitConcurrent /\ [][NextConcurrent]_vars

\* what a call with the arguments and backend answers of c returns when it runs alone
AloneResults(c) ==
    { Fuse(doc_texts, c.sem_answer, c.lex_answer, c.top_k, c.alpha, order) :
        order \in Perms(AllUrls(c.sem_answer, c.lex_answer)) }

\* C11: search changes neither the snapshot, the URL list nor the index and keeps
\* no state between calls, so in every interleaving of concurrent calls each call
\* returns what it returns when it runs alone on its own arguments and answers.
C11_CallsIndependent ==
    /\ [][pc # "new" => UNCHANGED indexVars]_vars
    /\ [](\A t \in Threads :
            t_call[t].pc = "done" => t_frame[Frame(t)].results \in AloneResults(t_call[t]))

\* both threads are inside search with different arguments, one of them has
\* returned a non-empty list while the other still holds unfused hits
C11_Witness ==
    /\ t_call # <<>>
    /\ t_call[1].pc = "done"
    /\ t_call[2].pc = "fuse"
    /\ t_call[1].category # t_call[2].category
    /\ t_frame[1].results # <<>>
    /\ t_frame[2].bm25_hits # <<>>

-----------------------------------------------------------------------------
(* Properties of Retriever.search *)

Urls(hits) == {hits[i].source_url : i \in 1..Len(hits)}

Returned == pc = "done"

BackendFailed == backend \in {"unreachable", "error", "timeout"}

\* the query holds no run of two word characters
NoTokenQuery(q) ==
    ~ \E i \in 1..(Len(q) - 1) :
        /\ PyLower(q[i]) \in LowerChars
        /\ PyLower(q[i + 1]) \in LowerChars

\* C1: for every query, category, alpha and top_k in 1..TopKMax and any contents of
\* the two hit sets, search returns at most top_k results.
C1_AtMostTopK ==
    (Returned /\ top_k \in TopKMin..TopKMax) => Len(results) <= top_k

\* more candidates than top_k were fused and the list was cut to top_k
C1_Witness ==
    /\ Returned
    /\ Cardinality(AllUrls(semantic_hits, bm25_hits)) > top_k
    /\ Len(results) = top_k

\* C2: when search is called with a category, every returned document carries
\* that category, whichever path found it and whichever hit gave its metadata.
C2_CategoryFilter ==
    (Returned /\ Truthy(category)) =>
        \A i \in 1..Len(results) : results[i].category = category

\* a filtered search that returned a lexical-only and a semantic-only result,
\* over a corpus that also holds a matching document of another category
C2_Witness ==
    /\ Returned
    /\ category = "people"
    /\ \E i, j \in 1..Len(results) :
         /\ results[i].match_type = "bm25"
         /\ results[j].match_type = "semantic"
    /\ \E d \in Range(doc_texts) : d.category # category

\* C3: the ordered list search returns is the same for every iteration order of
\* the set of candidate URLs, ties in hybrid_score included.
C3_OrderIndependent ==
    Returned =>
        \A order \in Perms(AllUrls(semantic_hits, bm25_hits)) :
            Fuse(doc_texts, semantic_hits, bm25_hits, top_k, alpha, order) = results

\* C4: when the call of the vector backend fails, search still returns, every
\* result is of match type bm25 and the URLs come in the order of bm25_search for
\* the same query and category, cut to top_k.
C4_DegradedIsLexical ==
    (Returned /\ BackendFailed) =>
        /\ error = ""
        /\ \A i \in 1..Len(results) : results[i].match_type = "bm25"
        /\ [i \in 1..Len(results) |-> results[i].source_url]
             = PySlicePrefix([i \in 1..Len(bm25_hits) |-> bm25_hits[i].source_url], top_k)

\* C5: a result is hybrid exactly when its URL is in both raw hit lists, bm25 when
\* only the lexical list holds it, semantic when only the semantic list holds it.
C5_MatchKind ==
    Returned =>
        \A i \in 1..Len(results) :
            LET u == results[i].source_url
                lex == u \in Urls(bm25_hits)
                sem == u \in Urls(semantic_hits)
            IN /\ (results[i].match_type = "hybrid") <=> (lex /\ sem)
               /\ (results[i].match_type = "bm25") <=> (lex /\ ~sem)
               /\ (results[i].match_type = "semantic") <=> (sem /\ ~lex)

\* a hybrid result next to a result found by one path only
C5_Witness ==
    /\ Returned
    /\ \E i, j \in 1..Len(results) :
         /\ results[i].match_type = "hybrid"
         /\ results[j].match_type # "hybrid"

\* C6: with an empty corpus or a query without tokens, search returns an empty
\* list and nothing raises, the construction of the index over the empty corpus
\* included.
C6_EmptyIsEmpty ==
    /\ (doc_texts = <<>>) => (pc # "crashed" /\ error = "")
    /\ (Returned /\ (doc_texts = <<>> \/ NoTokenQuery(query))) => results = <<>>

\* C7: a connectivity failure, an error or a timeout of the backend never leaves
\* semantic_search as an exception: the hit list is empty and search goes on to a
\* lexical-only result.
C7_BackendFailureCaught ==
    BackendFailed =>
        /\ pc \in {"bm25", "fuse", "done"}
        /\ error = ""
        /\ semantic_hits = <<>>
        /\ Returned => \A i \in 1..Len(results) : results[i].sem_norm = 0

\* a search that returned lexical results after the backend timed out
C7_Witness ==
    /\ Returned
    /\ backend = "timeout"
    /\ results # <<>>

InvalidTopK(req) == req.top_k \notin TopKMin..TopKMax
InvalidCategory(req) == req.category # NoneV /\ req.category \notin VALID_CATEGORIES

C9_SentinelForStale ==
    Returned =>
        /\ error = ""
        /\ \A i \in 1..Len(results) :
             /\ \A d \in Range(doc_texts) :
                  d.url = results[i].source_url => results[i].full_text = d.text
             /\ (\A d \in Range(doc_texts) : d.url # results[i].source_url)
                  => results[i].full_text = SENTINEL

\* a stale result next to a result with its persisted text
C9_Witness ==
    /\ Returned
    /\ \E i, j \in 1..Len(results) :
         /\ results[i].full_text = SENTINEL
         /\ \E d \in Range(doc_texts) :
              d.url = results[j].source_url /\ results[j].full_text = d.text

\* C10 as stated: for a query without tokens the lexical path has no hit, every
\* result is semantic with bm25_norm 0, and the result is empty exactly when the
\* semantic path returned no hit.
C10_NoTokensSemanticOnly ==
    (Returned /\ NoTokenQuery(query)) =>
        /\ bm25_hits = <<>>
        /\ \A i \in 1..Len(results) :
             results[i].match_type = "semantic" /\ results[i].bm25_norm = 0
        /\ (results = <<>>) <=> (semantic_hits = <<>>)

\* C10 amended: ... and the result is empty exactly when the semantic path
\* returned no hit with a non-empty URL.
C10_NoTokensSemanticOnlyNonEmptyUrl ==
    (Returned /\ NoTokenQuery(query)) =>
        /\ error = ""
        /\ bm25_hits = <<>>
        /\ \A i \in 1..Len(results) :
             results[i].match_type = "semantic" /\ results[i].bm25_norm = 0
        /\ (results = <<>>) <=> (Urls(semantic_hits) \subseteq {""})

\* a query without tokens answered from the semantic hits, one of them without URL
C10_Witness ==
    /\ Returned
    /\ NoTokenQuery(query)
    /\ "" \in Urls(semantic_hits)
    /\ results # <<>>

-----------------------------------------------------------------------------
(* The two retrieval paths inside one call of search *)

\* the state of the call self.semantic_search(query, ...) of search
SemTask ==
    CASE pc = "semantic" -> "running"
      [] pc \in {"bm25", "fuse", "done"} -> "finished"
      [] OTHER -> "not issued"

\* the state of the call self.bm25_search(query, ...) of search
LexTask ==
    CASE pc = "bm25" -> "running"
      [] pc \in {"fuse", "done"} -> "finished"
      [] OTHER -> "not issued"

\* C12: the lexical and the semantic search of one call are issued together as
\* two tasks (while one runs the other has been issued too) and fusion starts
\* only after both have finished.
C12_PathsConcurrent ==
    /\ (SemTask = "running" => LexTask # "not issued")
    /\ (LexTask = "running" => SemTask # "not issued")
    /\ (pc = "fuse" => (SemTask = "finished" /\ LexTask = "finished"))

-----------------------------------------------------------------------------
(* Failures *)

\* the exceptions that leave search or the pipeline, each an instance of a class
TypedFailures == {"EmbedderError", "LLMError"}

InSearch == pc \in {"semantic", "bm25", "fuse"}

\* C13: no step of a search ends the process; a failure of the backend is
\* recovered to an empty semantic list and the call goes on; a call that returns
\* returns a list of at most top_k complete records and no error; a failure that
\* leaves search is a typed exception; and /ask answers 500 to any exception of
\* the pipeline.
C13_FailuresContained ==
    /\ [][InSearch => pc' # "crashed"]_vars
    /\ [][(pc = "semantic" /\ backend' \in BackendOutcomes \ {"ok"})
            => (pc' = "bm25" /\ semantic_hits' = <<>> /\ error' = "")]_vars
    /\ [](Returned => /\ error = ""
                      /\ Len(results) <= top_k
                      /\ \A i \in 1..Len(results) : results[i].full_text # <<>>)
    /\ [](pc = "raised" => error \in TypedFailures)
    /\ [][(pc = "raised" /\ request.present)
            => (response' = StatusError /\ pc' = "idle")]_vars
    /\ [][(pc = "done" /\ request.present /\ error' # "")
            => (response' = StatusError /\ pc' = "idle")]_vars

\* the embedding provider failed inside the search of a request and /ask has
\* answered 500; the process is ready for the next request
C13_Witness ==
    /\ pc = "idle"
    /\ response = StatusError
    /\ error = "EmbedderError"

-----------------------------------------------------------------------------
(* Fusion *)

CandidateScore(u) == Candidate(semantic_hits, bm25_hits, alpha, u).hybrid_score

\* C15: the returned list is in non-increasing order of score and is the top
\* top_k of the fused candidates: it has min(top_k, number of candidates)
\* records and no candidate left out scores strictly more than a returned one.
C15_RankedTopK ==
    Returned =>
        LET all_urls == AllUrls(semantic_hits, bm25_hits)
            n == Cardinality(all_urls)
        IN /\ \A i \in 1..Len(results), j \in 1..Len(results) :
                 i < j => results[i].score >= results[j].score
           /\ Len(results) = (IF top_k <= n THEN top_k ELSE n)
           /\ \A u \in all_urls \ Urls(results) :
                 \A i \in 1..Len(results) : CandidateScore(u) <= results[i].score

\* three candidates of three different scores, the best two returned in order
\* and the weakest left out
C15_Witness ==
    /\ Returned
    /\ top_k = 2
    /\ Len(results) = 2
    /\ results[1].score > results[2].score
    /\ \E u \in AllUrls(semantic_hits, bm25_hits) \ Urls(results) :
         CandidateScore(u) < results[2].score

\* the similarities of the passage hits of url u in the call at hand
Similarities(u) ==
    { semantic_hits[j].score : j \in { k \in 1..Len(semantic_hits) :
                                          semantic_hits[k].source_url = u } }

\* C16: no URL appears twice in the returned list, and the sem_norm of a record
\* is the greatest similarity among the semantic passage hits of its URL.
C16_OnePerUrl ==
    Returned =>
        /\ \A i \in 1..Len(results), j \in 1..Len(results) :
              i # j => results[i].source_url # results[j].source_url
        /\ \A i \in 1..Len(results) :
              LET sims == Similarities(results[i].source_url)
              IN sims # {} => /\ results[i].sem_norm \in sims
                              /\ \A x \in sims : x <= results[i].sem_norm

\* two passages of one document matched, the better one first, and the document
\* is returned once
C16_Witness ==
    /\ Returned
    /\ Len(semantic_hits) = 2
    /\ semantic_hits[1].source_url = semantic_hits[2].source_url
    /\ semantic_hits[1].score > semantic_hits[2].score
    /\ semantic_hits[1].source_url \in Urls(results)

\* C17: the score of every returned record lies in 0..1.
C17_ScoreInUnitRange ==
    Returned => \A i \in 1..Len(results) : results[i].score \in 0..Scale

-----------------------------------------------------------------------------
(* The worked example: D1 raw 19.3 and similarity 0.90, D2 raw 2.6 and 0.95 *)

\* the call at hand has the scores of the example for the URLs d1 and d2
IsExample(d1, d2) ==
    /\ alpha = DefaultAlpha
    /\ d1 # d2
    /\ \E i \in 1..Len(bm25_hits) :
          bm25_hits[i].source_url = d1 /\ bm25_hits[i].score = 19300
    /\ \E i \in 1..Len(bm25_hits) :
          bm25_hits[i].source_url = d2 /\ bm25_hits[i].score = 2600
    /\ Similarities(d1) = {900}
    /\ Similarities(d2) = {950}

\* a score in thousandths rounded to two decimals, in hundredths
TwoDecimals(x) == (x + 5) \div 10

-----------------------------------------------------------------------------
(* sigmoid_norm applied to the dict bm25_scores of one call *)

\* raw BM25 scores in tenths: bm25_search hands on positive scores only
MaxRawTenths == 200

NormUrls == {"u1", "u2"}

RawDicts ==
    UNION { [us -> { ExpStep * n : n \in 1..MaxRawTenths }] : us \in (SUBSET NormUrls) \ {{}} }

InitNorm ==
    /\ doc_texts = <<>>
    /\ doc_urls = <<>>
    /\ bm25 = NoneV
    /\ pc = "new"
    /\ error = ""
    /\ response = NoStatus
    /\ NoCall
    /\ t_call = <<>>
    /\ t_frame = <<>>
    /\ norm_in \in RawDicts
    /\ norm_out = <<>>
    /\ chunk_docs = <<>>
    /\ all_chunks = <<>>
    /\ OthersIdle

\* norm_bm25 = sigmoid_norm(bm25_scores)
Normalize ==
    /\ DOMAIN norm_out # DOMAIN norm_in
    /\ norm_out' = sigmoid_norm(norm_in)
    /\ UNCHANGED <<indexVars, callVars, threadVars, chunkVars, otherVars, norm_in>>

NextNorm == Normalize

SpecNorm == InitNorm /\ [][NextNorm]_vars

Normalized == DOMAIN norm_out = DOMAIN norm_in

-----------------------------------------------------------------------------
(* The chunker: chunk_text, merge_short_chunks, chunk_document and the loop of *)
(* the chunking script over the cleaned files.  A text is the sequence of its  *)
(* sentences, a sentence is given by its length in characters.                 *)

CHUNK_SIZE == 500
CHUNK_OVERLAP == 50
MinChunkSize == 80

MaxSentences == 2

RECURSIVE SumLen(_)
SumLen(sentences) ==
    IF sentences = <<>> THEN 0 ELSE Head(sentences) + SumLen(Tail(sentences))

\* len(' '.join(sentences))
StrLen(sentences) ==
    IF sentences = <<>> THEN 0 ELSE SumLen(sentences) + Len(sentences) - 1

\* the short chunks dropped instead of glued to a neighbour
MergeDropsShort(chunks, i, merged, carry, min_chunk_size) ==
    SelectSeq(chunks, LAMBDA c : StrLen(c) >= min_chunk_size)

RECURSIVE MergeLoop(_, _, _, _, _)
\* the loop of merge_short_chunks and the step after it
MergeLoop(chunks, i, merged, carry, min_chunk_size) ==
    IF i > Len(chunks)
    THEN IF carry # <<>>
         THEN IF merged # <<>>
              THEN [merged EXCEPT ![Len(merged)] = @ \o carry]
              ELSE <<carry>>
         ELSE merged
    ELSE LET chunk == carry \o chunks[i]
         IN IF StrLen(chunk) < min_chunk_size
            THEN MergeLoop(chunks, i + 1, merged, chunk, min_chunk_size)
            ELSE MergeLoop(chunks, i + 1, Append(merged, chunk), <<>>, min_chunk_size)

merge_short_chunks(chunks, min_chunk_size) ==
    IF chunks = <<>> THEN chunks ELSE MergeLoop(chunks, 1, <<>>, <<>>, min_chunk_size)

RECURSIVE OverlapLoop(_, _, _, _)
\* for s in reversed(current_chunk_sentences): the last sentences that fit the overlap
OverlapLoop(current, j, acc, chunk_overlap) ==
    IF j = 0 \/ SumLen(acc) + current[j] > chunk_overlap
    THEN acc
    ELSE OverlapLoop(current, j - 1, <<current[j]>> \o acc, chunk_overlap)

RECURSIVE ChunkLoop(_, _, _, _, _, _)
\* the loop of chunk_text over the sentences: <<chunks, current_chunk_sentences>>
ChunkLoop(sentences, i, chunks, current, chunk_size, chunk_overlap) ==
    IF i > Len(sentences) THEN <<chunks, current>>
    ELSE LET s == sentences[i]
         IN IF s > chunk_size /\ current = <<>>
            THEN ChunkLoop(sentences, i + 1, Append(chunks, <<s>>), current,
                           chunk_size, chunk_overlap)
            ELSE IF SumLen(current) + s > chunk_size /\ current # <<>>
            THEN ChunkLoop(sentences, i + 1, Append(chunks, current),
                           Append(OverlapLoop(current, Len(current), <<>>, chunk_overlap), s),
                           chunk_size, chunk_overlap)
            ELSE ChunkLoop(sentences, i + 1, chunks, Append(current, s),
                           chunk_size, chunk_overlap)

chunk_text(sentences, chunk_size, chunk_overlap, min_chunk_size) ==
    IF sentences = <<>> THEN <<>>
    ELSE LET r == ChunkLoop(sentences, 1, <<>>, <<>>, chunk_size, chunk_overlap)
             chunks == r[1]
             last == r[2]
             all == IF last # <<>> /\ (chunks = <<>> \/ last # chunks[Len(chunks)])
                    THEN Append(chunks, last)
                    ELSE chunks
         IN merge_short_chunks(all, min_chunk_size)

\* f'{category}_{title}_{i}'
ChunkId(cat, title, i) == <<cat, "_", title, "_", i>>

chunk_document(doc, chunk_size, chunk_overlap, cat) ==
    LET text_chunks == chunk_text(doc.content, chunk_size, chunk_overlap, MinChunkSize)
    IN [k \in 1..Len(text_chunks) |->
          [chunk_id |-> ChunkId(cat, doc.title, k - 1),
           text |-> text_chunks[k],
           metadata |-> [source_url |-> doc.url,
                         title |-> doc.title,
                         category |-> cat,
                         chunk_index |-> k - 1,
                         total_chunks |-> Len(text_chunks)]]]

\* the cleaned files: every page has its own url; titles repeat across pages;
\* the directory of the file gives the category
SentenceLens == {40, 300, 600}
Contents == UNION { [1..n -> SentenceLens] : n \in 0..MaxSentences }
FileUrls == <<"u1", "u2">>
FileTitles == {"T", "S"}
FileCategories == {"news", "people"}

CleanedFiles ==
    UNION { { [i \in 1..n |-> [url |-> FileUrls[i], title |-> t[i],
                               content |-> c[i], category |-> g[i]]] :
                t \in [1..n -> FileTitles], c \in [1..n -> Contents],
                g \in [1..n -> FileCategories] } : n \in 1..Len(FileUrls) }

InitChunk ==
    /\ doc_texts = <<>>
    /\ doc_urls = <<>>
    /\ bm25 = NoneV
    /\ pc = "new"
    /\ error = ""
    /\ response = NoStatus
    /\ NoCall
    /\ t_call = <<>>
    /\ t_frame = <<>>
    /\ norm_in = <<>>
    /\ norm_out = <<>>
    /\ chunk_docs \in CleanedFiles
    /\ all_chunks = <<>>
    /\ OthersIdle

\* one pass of the loop over the files:
\* all_chunks.extend(chunk_document(doc, CHUNK_SIZE, CHUNK_OVERLAP, category))
ChunkFile ==
    /\ chunk_docs # <<>>
    /\ all_chunks' = all_chunks \o chunk_document(Head(chunk_docs), CHUNK_SIZE,
                                                  CHUNK_OVERLAP, Head(chunk_docs).category)
    /\ chunk_docs' = Tail(chunk_docs)
    /\ UNCHANGED <<indexVars, callVars, threadVars, normVars, otherVars>>

NextChunk == ChunkFile

SpecChunk == InitChunk /\ [][NextChunk]_vars

\* C20: the identifiers of the passages of a corpus are unique: two passages
\* at different places of all_chunks, and so two passages of two documents with
\* different URLs, never share a chunk_id; the passages of one document are
\* numbered 0..total-1.
C20_ChunkIdsUnique ==
    /\ \A i \in 1..Len(all_chunks), j \in 1..Len(all_chunks) :
          i # j => all_chunks[i].chunk_id # all_chunks[j].chunk_id
    /\ \A i \in 1..Len(all_chunks) :
          all_chunks[i].metadata.chunk_index \in 0..(all_chunks[i].metadata.total_chunks - 1)

-----------------------------------------------------------------------------
(* The index and the snapshot; the number of results *)

Constructed == pc \notin {"new", "crashed"}

\* C26: the index and the resolver come from one snapshot: entry i of the BM25
\* corpus is the document of doc_urls[i], every URL of a lexical hit is a key of
\* the snapshot, and a returned record of kind bm25 or hybrid never carries the
\* sentinel text.
C26_IndexMatchesSnapshot ==
    /\ Constructed =>
          /\ Len(bm25) = Len(doc_urls)
          /\ \A i \in 1..Len(doc_urls) :
                /\ HasDoc(doc_texts, doc_urls[i])
                /\ bm25[i] = _tokenize(_get_full_doc(doc_texts, doc_urls[i]).title \o <<" ">>
                                       \o _get_full_doc(doc_texts, doc_urls[i]).text)
    /\ pc \in {"fuse", "done"} =>
          \A i \in 1..Len(bm25_hits) : HasDoc(doc_texts, bm25_hits[i].source_url)
    /\ Returned =>
          \A i \in 1..Len(results) :
              results[i].match_type \in {"bm25", "hybrid"} => results[i].full_text # SENTINEL

\* a call returned a lexical record with its text next to a semantic record of
\* a page the snapshot does not hold
C26_Witness ==
    /\ Returned
    /\ \E i \in 1..Len(results) :
          results[i].match_type = "bm25" /\ results[i].full_text # SENTINEL
    /\ \E i \in 1..Len(results) :
          results[i].match_type = "semantic" /\ results[i].full_text = SENTINEL

\* C29: for top_k >= 1 the number of returned records is min(top_k, number of
\* distinct non-empty URLs among the lexical and the semantic hits), and no
\* record has the empty URL.
C29_ResultCount ==
    (Returned /\ top_k >= 1) =>
        LET found == (Urls(semantic_hits) \cup Urls(bm25_hits)) \ {""}
        IN /\ Len(results) = (IF top_k <= Cardinality(found) THEN top_k
                              ELSE Cardinality(found))
           /\ "" \notin Urls(results)

\* a hit without URL next to a lexical hit: one record although top_k = 2 and
\* two hits were found
C29_Witness ==
    /\ Returned
    /\ top_k = 2
    /\ "" \in Urls(semantic_hits)
    /\ Len(semantic_hits) = 1
    /\ Len(bm25_hits) = 1
    /\ Len(results) = 1

-----------------------------------------------------------------------------
(* Retriever.bm25_search called on its own *)

\* the limits: search passes SEMANTIC_TOP_K, small limits make the cut happen
LexLimits == {1, 2, SEMANTIC_TOP_K}

\* bm25_search(query, top_k, category): top_k holds the limit, lex_scores the
\* array of get_scores, bm25_hits the list returned
CallBm25Search ==
    /\ pc = "idle"
    /\ \E q \in Queries, k \in LexLimits, c \in DirectCategories :
         /\ query' = q
         /\ top_k' = k
         /\ category' = c
         /\ IF _tokenize(q) = <<>>
            THEN /\ bm25_hits' = <<>>
                 /\ lex_scores' = <<>>
            ELSE \E sc \in GetScores(bm25, _tokenize(q)) :
                   \E ti \in ArgSortDesc(sc) :
                      /\ bm25_hits' = Bm25Scan(doc_texts, doc_urls, sc, ti, 1, <<>>, k, c)
                      /\ lex_scores' = sc
    /\ pc' = "lexical"
    /\ UNCHANGED <<indexVars, request, alpha, backend, semantic_hits, results, error, response>>
    /\ UNCHANGED <<threadVars, normVars, chunkVars, mergeVars, llmVars, pipeVars>>

\* the caller takes the list
ReturnBm25 ==
    /\ pc = "lexical"
    /\ pc' = "idle"
    /\ ResetCall
    /\ lex_scores' = <<>>
    /\ UNCHANGED <<indexVars, error, response>>
    /\ UNCHANGED <<threadVars, normVars, chunkVars, mergeVars, llmVars, pipeVars>>

NextLexical ==
    \/ Construct
    \/ CallBm25Search
    \/ ReturnBm25

SpecLexical == Init /\ [][NextLexical]_vars

LexicalReturned == pc = "lexical"

\* the positions of the corpus that pass the category filter of the call
InCategory == { i \in 1..Len(doc_urls) : ~CategoryMismatch(category, doc_texts[i].category) }

\* C24: bm25_search returns at most limit hits, by non-increasing raw score, all
\* of score > 0 (the scan stops at the first score <= 0), and no document left
\* out is in the requested category with a positive score strictly above that
\* of a returned hit.
C24_LexicalTop ==
    LexicalReturned =>
        /\ Len(bm25_hits) <= top_k
        /\ \A i \in 1..Len(bm25_hits), j \in 1..Len(bm25_hits) :
              i < j => bm25_hits[i].score >= bm25_hits[j].score
        /\ \A i \in 1..Len(bm25_hits) : bm25_hits[i].score > 0
        /\ \A i \in InCategory \cap DOMAIN lex_scores :
              doc_urls[i] \notin Urls(bm25_hits) =>
                 ~(/\ lex_scores[i] > 0
                   /\ \E j \in 1..Len(bm25_hits) : lex_scores[i] > bm25_hits[j].score)

\* limit 1 and two documents with positive scores: the better one is returned,
\* the other is left out
C24_Witness ==
    /\ LexicalReturned
    /\ top_k = 1
    /\ Len(bm25_hits) = 1
    /\ \E i \in InCategory \cap DOMAIN lex_scores :
          /\ doc_urls[i] \notin Urls(bm25_hits)
          /\ lex_scores[i] > 0
          /\ lex_scores[i] < bm25_hits[1].score

\* C25: with a category filter the documents of other categories do not use up
\* the limit: the number of hits is min(limit, number of documents of the
\* category with raw score > 0).
C25_SkipsNotCounted ==
    (LexicalReturned /\ Truthy(category)) =>
        LET n == Cardinality({ i \in InCategory \cap DOMAIN lex_scores : lex_scores[i] > 0 })
        IN Len(bm25_hits) = (IF top_k <= n THEN top_k ELSE n)

\* limit 1, category people: the best document is a news page, the hit is the
\* people page ranked behind it
C25_Witness ==
    /\ LexicalReturned
    /\ category = "people"
    /\ top_k = 1
    /\ Len(bm25_hits) = 1
    /\ \E i \in DOMAIN lex_scores :
          /\ doc_texts[i].category # "people"
          /\ lex_scores[i] > bm25_hits[1].score

-----------------------------------------------------------------------------
(* merge_short_chunks on its own *)

MaxMergeChunks == 3

\* non-empty chunks, shorter and longer than min_chunk_size
MergeChunks == { c \in Contents : c # <<>> /\ \A i \in 1..Len(c) : c[i] \in {40, 300} }

MergeInputs == UNION { [1..n -> MergeChunks] : n \in 1..MaxMergeChunks }

InitMerge ==
    /\ doc_texts = <<>>
    /\ doc_urls = <<>>
    /\ bm25 = NoneV
    /\ pc = "new"
    /\ error = ""
    /\ response = NoStatus
    /\ NoCall
    /\ t_call = <<>>
    /\ t_frame = <<>>
    /\ norm_in = <<>>
    /\ norm_out = <<>>
    /\ chunk_docs = <<>>
    /\ all_chunks = <<>>
    /\ lex_scores = <<>>
    /\ merge_in \in MergeInputs
    /\ merge_out = <<>>
    /\ LLMIdle
    /\ PipelineIdle

\* chunks = merge_short_chunks(chunks, min_chunk_size)
Merge ==
    /\ merge_out = <<>>
    /\ merge_out' = merge_short_chunks(merge_in, MinChunkSize)
    /\ UNCHANGED <<indexVars, callVars, threadVars, normVars, chunkVars, lexVars,
                   llmVars, pipeVars, merge_in>>

NextMerge == Merge

SpecMerge == InitMerge /\ [][NextMerge]_vars

RECURSIVE JoinChunks(_)
\* ' '.join(chunks): the sentences of all chunks in order
JoinChunks(chunks) ==
    IF chunks = <<>> THEN <<>> ELSE Head(chunks) \o JoinChunks(Tail(chunks))

\* C30: merge_short_chunks loses and reorders no text (the output joined by
\* single spaces is the input joined by single spaces), and every output chunk
\* has at least min_chunk_size characters unless the output is one single chunk.
C30_MergeKeepsText ==
    merge_out # <<>> =>
        /\ JoinChunks(merge_out) = JoinChunks(merge_in)
        /\ StrLen(JoinChunks(merge_out)) = StrLen(JoinChunks(merge_in))
        /\ Len(merge_out) > 1 =>
              \A i \in 1..Len(merge_out) : StrLen(merge_out[i]) >= MinChunkSize

\* a short chunk in front of two long ones is glued to the first of them: two
\* chunks come out, both long enough
C30_Witness ==
    /\ Len(merge_in) = 3
    /\ StrLen(merge_in[1]) < MinChunkSize
    /\ StrLen(merge_in[2]) >= MinChunkSize
    /\ StrLen(merge_in[3]) >= MinChunkSize
    /\ Len(merge_out) = 2
    /\ merge_out[1] = merge_in[1] \o merge_in[2]

-----------------------------------------------------------------------------
(* rag/llm.py: LLM.ask and LLM.ask_stream with their retry loop, and the two   *)
(* consumers of the stream: RAGPipeline.ask_stream and the generator of        *)
(* /ask/stream                                                                 *)

MAX_RETRIES == 3
RETRY_BASE_DELAY == 2

\* tokens of one completion stream
MaxTokens == 2

LLMCallers == {"LLM.ask", "LLM.ask_stream", "pipeline.ask_stream", "event_generator"}

\* what client.chat.completions.create, or the iteration of its stream, does
ClientFailures == {"rate_limit", "other"}

\* the outcome of retriever.search for the consumers that search first
SearchOutcomes == {"docs", "raise"}

\* a delay that grows by the base delay per attempt
DelayLinear(a) == RETRY_BASE_DELAY * (a + 1)

\* delay = RETRY_BASE_DELAY * (2 ** attempt)
Delay(a) == RETRY_BASE_DELAY * (2 ^ a)

\* the positions of the stream of the current request that were yielded
StreamPos == Cardinality({ i \in 1..Len(yielded) : yielded[i][1] = requests })

\* one server-sent event; the data as a tuple
Event(name, data) == [event |-> name, data |-> data]

\* a generator that closes every stream with done
TerminalAlwaysDone(exc) == "done"

\* "event: done" at the end of the try block, "event: error" in the handler
TerminalEvent(exc) == IF exc = "" THEN "done" ELSE "error"

\* pipeline.py:103-106: first is never set to False, so each token is yielded
\* with the documents and once more without
PipelineYields(token) ==
    << [token |-> token, sources |-> "docs"], [token |-> token, sources |-> NoneV] >>

besideLLM == <<indexVars, callVars, threadVars, normVars, chunkVars, lexVars, mergeVars,
               pipeVars>>

InitLLM ==
    /\ doc_texts = <<>>
    /\ doc_urls = <<>>
    /\ bm25 = NoneV
    /\ pc = "new"
    /\ error = ""
    /\ response = NoStatus
    /\ NoCall
    /\ t_call = <<>>
    /\ t_frame = <<>>
    /\ norm_in = <<>>
    /\ norm_out = <<>>
    /\ chunk_docs = <<>>
    /\ all_chunks = <<>>
    /\ OthersIdle

\* a consumer starts: LLM.ask and LLM.ask_stream build the messages and enter
\* the retry loop, the pipeline and the route search first
StartConsumer ==
    /\ llm_caller = "none"
    /\ \E c \in LLMCallers :
         /\ llm_caller' = c
         /\ llm_pc' = IF c \in {"LLM.ask", "LLM.ask_stream"} THEN "request" ELSE "search"
    /\ UNCHANGED <<attempt, requests, slept, yielded, emitted, llm_error, answer>>
    /\ UNCHANGED besideLLM

\* the exception exc leaves the LLM or the search: the generator of the route
\* catches it and yields its last event, every other consumer lets it pass
Leave(exc) ==
    /\ llm_error' = exc
    /\ IF llm_caller = "event_generator"
       THEN /\ emitted' = Append(emitted, Event(TerminalEvent(exc), <<exc>>))
            /\ llm_pc' = "returned"
       ELSE /\ emitted' = emitted
            /\ llm_pc' = "raised"

\* retriever.search of the consumer; the route then yields the sources event
ConsumerSearch ==
    /\ llm_pc = "search"
    /\ \E o \in SearchOutcomes :
         IF o = "docs"
         THEN /\ emitted' = IF llm_caller = "event_generator"
                            THEN Append(emitted, Event("sources", <<"docs">>))
                            ELSE emitted
              /\ llm_pc' = "request"
              /\ UNCHANGED llm_error
         ELSE Leave("EmbedderError")
    /\ UNCHANGED <<llm_caller, attempt, requests, slept, yielded, answer>>
    /\ UNCHANGED besideLLM

\* the handler of the retry loop: except RateLimitError sleeps and goes on while
\* attempt < MAX_RETRIES and raises RuntimeError otherwise; anything else passes
OnFailure(kind) ==
    IF kind = "rate_limit" /\ attempt < MAX_RETRIES
    THEN /\ slept' = Append(slept, Delay(attempt))
         /\ attempt' = attempt + 1
         /\ llm_pc' = "request"
         /\ UNCHANGED <<llm_error, emitted>>
    ELSE /\ Leave(IF kind = "rate_limit" THEN "RuntimeError" ELSE "APIError")
         /\ UNCHANGED <<attempt, slept>>

\* client.chat.completions.create succeeds: LLM.ask returns the content, the
\* streaming variants start to iterate
RequestOk ==
    /\ llm_pc = "request"
    /\ requests' = requests + 1
    /\ IF llm_caller = "LLM.ask"
       THEN /\ answer' = requests + 1
            /\ llm_pc' = "returned"
       ELSE /\ answer' = answer
            /\ llm_pc' = "stream"
    /\ UNCHANGED <<llm_caller, attempt, slept, yielded, emitted, llm_error>>
    /\ UNCHANGED besideLLM

\* client.chat.completions.create raises
RequestFails ==
    /\ llm_pc = "request"
    /\ requests' = requests + 1
    /\ \E kind \in ClientFailures : OnFailure(kind)
    /\ UNCHANGED <<llm_caller, yielded, answer>>
    /\ UNCHANGED besideLLM

\* the stream delivers its next chunk with content: LLM.ask_stream yields it and
\* the consumer passes it on
StreamToken ==
    /\ llm_pc = "stream"
    /\ StreamPos < MaxTokens
    /\ LET token == <<requests, StreamPos + 1>> IN
         /\ yielded' = Append(yielded, token)
         /\ emitted' = CASE llm_caller = "pipeline.ask_stream" ->
                                emitted \o PipelineYields(token)
                         [] llm_caller = "event_generator" ->
                                Append(emitted, Event("token", token))
                         [] OTHER -> emitted
    /\ UNCHANGED <<llm_caller, llm_pc, attempt, requests, slept, llm_error, answer>>
    /\ UNCHANGED besideLLM

\* the stream is exhausted: LLM.ask_stream returns, the route yields done
StreamEnd ==
    /\ llm_pc = "stream"
    /\ llm_pc' = "returned"
    /\ emitted' = IF llm_caller = "event_generator"
                  THEN Append(emitted, Event(TerminalEvent(""), <<"[DONE]">>))
                  ELSE emitted
    /\ UNCHANGED <<llm_caller, attempt, requests, slept, yielded, llm_error, answer>>
    /\ UNCHANGED besideLLM

\* the iteration of the stream raises: the try block of the retry loop encloses
\* the for loop, so the same handler runs
StreamFails ==
    /\ llm_pc = "stream"
    /\ \E kind \in ClientFailures : OnFailure(kind)
    /\ UNCHANGED <<llm_caller, requests, yielded, answer>>
    /\ UNCHANGED besideLLM

NextLLM ==
    \/ StartConsumer
    \/ ConsumerSearch
    \/ RequestOk
    \/ RequestFails
    \/ StreamToken
    \/ StreamEnd
    \/ StreamFails

SpecLLM == InitLLM /\ [][NextLLM]_vars

\* every step of the loop is taken eventually: a request is answered or fails,
\* a stream delivers, ends or fails
FairSpecLLM == SpecLLM /\ WF_vars(NextLLM)

LLMDone == llm_pc \in {"returned", "raised"}

\* C21: RAGPipeline.ask_stream yields every token of the LLM stream exactly
\* once and in order, with the documents in the first yield and None in every
\* later one.
C21_PipelineYieldsOnce ==
    llm_caller = "pipeline.ask_stream" =>
        /\ Len(emitted) = Len(yielded)
        /\ \A i \in 1..Len(emitted) :
              /\ emitted[i].token = yielded[i]
              /\ emitted[i].sources = (IF i = 1 THEN "docs" ELSE NoneV)

EventNames == [i \in 1..Len(emitted) |-> emitted[i].event]

\* C22: the events of /ask/stream are one sources event first, then token
\* events, then one terminal event, done on success and error on an exception;
\* nothing follows the terminal event; the sources event is out before the
\* LLM is called; when the search fails the only event is error.
C22_EventSequence ==
    /\ [](llm_caller = "event_generator" =>
            /\ \A i \in 1..Len(emitted) :
                  /\ EventNames[i] = "sources" => i = 1
                  /\ EventNames[i] \in {"done", "error"} => (i = Len(emitted) /\ LLMDone)
                  /\ (1 < i /\ i < Len(emitted)) => EventNames[i] = "token"
                  /\ i = 1 => (EventNames[i] = "sources"
                                 \/ (EventNames[i] = "error" /\ Len(emitted) = 1))
            /\ requests > 0 => (emitted # <<>> /\ EventNames[1] = "sources")
            /\ llm_error = "EmbedderError" => EventNames = <<"error">>
            /\ LLMDone => /\ emitted # <<>>
                          /\ EventNames[Len(emitted)] =
                                (IF llm_error = "" THEN "done" ELSE "error")
            /\ llm_pc # "raised")
    /\ [][LLMDone => emitted' = emitted]_vars

\* the route streamed sources and one token, then the LLM stayed rate-limited
\* to the last attempt: the stream ends with the error event
C22_Witness ==
    /\ llm_caller = "event_generator"
    /\ LLMDone
    /\ Len(emitted) = 3
    /\ EventNames[2] = "token"
    /\ EventNames[3] = "error"
    /\ llm_error = "RuntimeError"

\* C23: LLM.ask makes at most MAX_RETRIES + 1 requests, retries on a rate limit
\* only, sleeps 2, 4, 8 seconds before the retries, returns the answer of the
\* first request that succeeds, raises RuntimeError when the last request is
\* rate-limited too, lets any other exception pass at once, and terminates.
C23_AskRetries ==
    /\ [](llm_caller = "LLM.ask" =>
            /\ requests <= MAX_RETRIES + 1
            /\ Len(slept) <= MAX_RETRIES
            /\ \A i \in 1..Len(slept) : slept[i] = 2 ^ i
            /\ llm_pc = "request" => requests = Len(slept)
            /\ LLMDone => requests = Len(slept) + 1
            /\ llm_pc = "returned" => (answer = requests /\ llm_error = "")
            /\ llm_pc = "raised" =>
                  /\ answer = 0
                  /\ llm_error \in {"RuntimeError", "APIError"}
                  /\ llm_error = "RuntimeError" => requests = MAX_RETRIES + 1)
    /\ (llm_caller = "LLM.ask") ~> LLMDone

\* three rate limits, three sleeps of 2, 4 and 8 seconds, and the fourth
\* request answered
C23_Witness ==
    /\ llm_caller = "LLM.ask"
    /\ llm_pc = "returned"
    /\ slept = <<2, 4, 8>>
    /\ requests = MAX_RETRIES + 1
    /\ answer = MAX_RETRIES + 1

\* C28: the tokens LLM.ask_stream has yielded when it returns are those of one
\* completion stream, the one that finished.
C28_OneStreamOnly ==
    (llm_caller = "LLM.ask_stream" /\ llm_pc = "returned") =>
        \A i \in 1..Len(yielded) : yielded[i][1] = requests

-----------------------------------------------------------------------------
(* service/routes.py: get_pipeline and the module global _pipeline, called by  *)
(* the startup hook, by /ask on the event loop and by the generators of        *)
(* /ask/stream in the threads of the pool                                      *)

PipelineCallers == {"loop", "worker1", "worker2"}

\* calls of get_pipeline per caller
MaxGets == 2

\* a get_pipeline without the test for None
AlwaysFresh(seen, fresh) == fresh

\* if _pipeline is None: _pipeline = RAGPipeline(), for a caller whose test read
\* seen; fresh is the instance the constructor would make
GetPipelineValue(seen, fresh) == IF seen = 0 THEN fresh ELSE seen

InitSingleton ==
    /\ doc_texts = <<>>
    /\ doc_urls = <<>>
    /\ bm25 = NoneV
    /\ pc = "new"
    /\ error = ""
    /\ response = NoStatus
    /\ NoCall
    /\ t_call = <<>>
    /\ t_frame = <<>>
    /\ norm_in = <<>>
    /\ norm_out = <<>>
    /\ chunk_docs = <<>>
    /\ all_chunks = <<>>
    /\ lex_scores = <<>>
    /\ merge_in = <<>>
    /\ merge_out = <<>>
    /\ LLMIdle
    /\ _pipeline = 0
    /\ built = 0
    /\ started = FALSE
    /\ g_pc = [c \in PipelineCallers |-> "idle"]
    /\ g_seen = [c \in PipelineCallers |-> 0]
    /\ g_got = [c \in PipelineCallers |-> <<>>]

besidePipeline == <<indexVars, callVars, threadVars, normVars, chunkVars, lexVars,
                    mergeVars, llmVars>>

\* lifespan: get_pipeline() before the first request is served; a constructor
\* that raises ends the process before it serves
Lifespan ==
    /\ ~started
    /\ LET v == GetPipelineValue(_pipeline, built + 1) IN
         /\ _pipeline' = v
         /\ built' = IF v = built + 1 THEN built + 1 ELSE built
    /\ started' = TRUE
    /\ UNCHANGED <<g_pc, g_seen, g_got>>
    /\ UNCHANGED besidePipeline

\* caller c enters get_pipeline and evaluates "_pipeline is None"
GetTest(c) ==
    /\ started
    /\ g_pc[c] = "idle"
    /\ Len(g_got[c]) < MaxGets
    /\ g_seen' = [g_seen EXCEPT ![c] = _pipeline]
    /\ g_pc' = [g_pc EXCEPT ![c] = "tested"]
    /\ UNCHANGED <<_pipeline, built, started, g_got>>
    /\ UNCHANGED besidePipeline

\* caller c constructs and assigns if its test found None, and returns _pipeline
GetReturn(c) ==
    /\ g_pc[c] = "tested"
    /\ LET v == GetPipelineValue(g_seen[c], built + 1) IN
         /\ _pipeline' = IF v = built + 1 THEN v ELSE _pipeline
         /\ built' = IF v = built + 1 THEN built + 1 ELSE built
    /\ g_got' = [g_got EXCEPT ![c] = Append(@, _pipeline')]
    /\ g_pc' = [g_pc EXCEPT ![c] = "idle"]
    /\ UNCHANGED <<started, g_seen>>
    /\ UNCHANGED besidePipeline

NextSingleton ==
    \/ Lifespan
    \/ \E c \in PipelineCallers : GetTest(c)
    \/ \E c \in PipelineCallers : GetReturn(c)

SpecSingleton == InitSingleton /\ [][NextSingleton]_vars

\* C27: once the startup hook has run, one RAGPipeline has been constructed and
\* no other ever is: every call of get_pipeline, from the event loop and from
\* the worker threads in any interleaving, returns that instance.
C27_OnePipeline ==
    started =>
        /\ built = 1
        /\ _pipeline = 1
        /\ \A c \in PipelineCallers :
              /\ g_pc[c] = "tested" => g_seen[c] = 1
              /\ \A i \in 1..Len(g_got[c]) : g_got[c][i] = 1

\* both workers are between the test and the return of get_pipeline while the
\* event loop has already got the instance twice
C27_Witness ==
    /\ started
    /\ g_pc["worker1"] = "tested"
    /\ g_pc["worker2"] = "tested"
    /\ g_got["loop"] = <<1, 1>>

=============================================================================
